---- MODULE Spec2Model ----
(***************************************************************************)
(* qord: guild channel and guild member models.                            *)
(*                                                                         *)
(* One entity (a channel of one of the five variants, or a guild member)   *)
(* is followed through a sequence of operations.  Every operation is split *)
(* at its await points: the step that validates, builds the body and       *)
(* issues the REST call, and the step in which the REST call returns or    *)
(* raises.                                                                 *)
(*                                                                         *)
(* Python values are boxed: None is the null object, Some(v) is the value  *)
(* v, and EMPTY is the sentinel that edit() uses as parameter default.     *)
(* A dict is a function from its keys to boxed values.                     *)
(***************************************************************************)
EXTENDS Integers, Sequences, FiniteSets, TLC

VARIABLES
    self,       \* the entity: its class (cls) and its slots
    roleCache,  \* ids of the roles held by guild.cache
    pc,         \* "idle" | "await_edit" | "await_role" | "await_call" | "done"
    op,         \* the running (or last) operation: its name, arguments, locals
    before,     \* self as it was when the operation was called
    calls,      \* REST calls issued by the operation, in order
    completed,  \* how many of them have returned
    resp,       \* what the last returned REST call returned
    result,     \* "none" | "running" | "returned" | "ValueError" | "HTTPException"
                \* | "NotImplementedError"
    ret,        \* add_roles/remove_roles: the list `ret`; the returned value
    now,        \* the clock that datetime.now() reads
    hydrated,   \* roleCache as it was when the member was last hydrated
    channels,   \* the other channels of guild.cache, in the order of the cache
    other       \* an edit of another call site on the same entity

vars == <<self, roleCache, pc, op, before, calls, completed, resp, result, ret,
          now, hydrated, channels, other>>

\* what the methods of the entity do not touch
env == <<now, channels, other>>

----------------------------------------------------------------------------
(* Values *)

None == [none |-> TRUE]
Some(v) == [some |-> v]
EMPTY == [empty |-> TRUE]

EmptyDict == [k \in {} |-> None]

Put(json, k, v) == (k :> v) @@ json

\* dict.get(key, default)
Get(data, k, default) == IF k \in DOMAIN data THEN data[k] ELSE default

\* truth value of a dict-or-None, as in `if json:` and `if data:`
Truthy(d) == d # None /\ DOMAIN d # {}

\* Snowflakes travel as decimal strings.
SnowflakeWire ==
    (1 :> "1") @@ (2 :> "2") @@ (7 :> "7") @@ (8 :> "8") @@ (9 :> "9")
    @@ (11 :> "11") @@ (12 :> "12") @@ (13 :> "13") @@ (40 :> "40") @@ (41 :> "41")

\* int(s) of a decimal string
IntOfStr(s) == CHOOSE n \in DOMAIN SnowflakeWire : SnowflakeWire[n] = s

\* Timestamps: a datetime is a number of ticks; its ISO-8601 text is a string.
IsoWire == (100 :> "1970-01-01T00:01:40") @@ (200 :> "1970-01-01T00:03:20")
           @@ (300 :> "1970-01-01T00:05:00")

isoformat(t) == IsoWire[t]

parse_iso_timestamp(s) == CHOOSE t \in DOMAIN IsoWire : IsoWire[t] = s

get_optional_snowflake(data, k) ==
    IF k \in DOMAIN data /\ data[k] # None
    THEN Some(IntOfStr(data[k].some))
    ELSE None

ChannelType_TEXT == 0
ChannelType_VOICE == 2
ChannelType_CATEGORY == 4
ChannelType_NEWS == 5
ChannelType_STAGE == 13

\* the guild that owns the entity
Guild == [id |-> Some(9)]

----------------------------------------------------------------------------
(* Channels: hydration *)

TextClasses == {"TextChannel", "NewsChannel"}
VoiceClasses == {"VoiceChannel", "StageChannel"}
ChannelClasses == TextClasses \cup VoiceClasses \cup {"CategoryChannel"}

GuildChannel_update_with_data(obj, data) ==
    [id |-> Some(IntOfStr(data["id"].some)),
     type |-> data["type"],
     name |-> data["name"],
     position |-> Get(data, "position", Some(1)),
     parent_id |-> get_optional_snowflake(data, "parent_id")] @@ obj

TextChannel_update_with_data(obj, data) ==
    LET last_pin_timestamp == Get(data, "last_pin_timestamp", None) IN
    [topic |-> Get(data, "topic", None),
     last_message_id |-> get_optional_snowflake(data, "last_message_id"),
     slowmode_delay |-> Get(data, "rate_limit_per_user", Some(0)),
     default_auto_archive_duration |-> Get(data, "default_auto_archive_duration", Some(60)),
     nsfw |-> Get(data, "nsfw", Some(FALSE)),
     last_pin_timestamp |->
        IF last_pin_timestamp # None
        THEN Some(parse_iso_timestamp(last_pin_timestamp.some))
        ELSE None] @@ GuildChannel_update_with_data(obj, data)

VoiceChannel_update_with_data(obj, data) ==
    [bitrate |-> Get(data, "bitrate", None),
     rtc_region |-> Get(data, "rtc_region", None),
     user_limit |-> Get(data, "user_limit", Some(0)),
     video_quality_mode |-> Get(data, "video_quality_mode", Some(1))]
    @@ GuildChannel_update_with_data(obj, data)

\* Faulty variant: the subclasses' slots are not read from the payload.
Channel_update_with_data_BaseOnly(obj, data) == GuildChannel_update_with_data(obj, data)

\* Faulty variant: the object takes the class that the factory gives for the
\* type of the payload.
Channel_update_with_data_Reclassed(obj, data) ==
    LET cls == CASE data["type"].some = ChannelType_TEXT -> "TextChannel"
                 [] data["type"].some = ChannelType_NEWS -> "NewsChannel"
                 [] data["type"].some = ChannelType_CATEGORY -> "CategoryChannel"
                 [] data["type"].some = ChannelType_VOICE -> "VoiceChannel"
                 [] data["type"].some = ChannelType_STAGE -> "StageChannel"
                 [] OTHER -> "GuildChannel"
    IN  CASE cls \in TextClasses ->
                TextChannel_update_with_data([cls |-> cls], data)
          [] cls \in VoiceClasses ->
                VoiceChannel_update_with_data([cls |-> cls], data)
          [] OTHER -> GuildChannel_update_with_data([cls |-> cls], data)

\* obj._update_with_data(data), dispatched on the class of obj
Channel_update_with_data(obj, data) ==
    CASE obj.cls \in TextClasses -> TextChannel_update_with_data(obj, data)
      [] obj.cls \in VoiceClasses -> VoiceChannel_update_with_data(obj, data)
      [] OTHER -> GuildChannel_update_with_data(obj, data)

\* cls(data, guild)
GuildChannel_init(cls, data) == Channel_update_with_data([cls |-> cls], data)

\* Faulty variant: a stage channel is made a VoiceChannel, its base class.
_channel_factory_StageAsVoice(type) ==
    CASE type = ChannelType_TEXT -> "TextChannel"
      [] type = ChannelType_NEWS -> "NewsChannel"
      [] type = ChannelType_CATEGORY -> "CategoryChannel"
      [] type \in {ChannelType_VOICE, ChannelType_STAGE} -> "VoiceChannel"
      [] OTHER -> "GuildChannel"

\* The type codes are small integers, for which `is` is `==`.
_channel_factory(type) ==
    CASE type = ChannelType_TEXT -> "TextChannel"
      [] type = ChannelType_NEWS -> "NewsChannel"
      [] type = ChannelType_CATEGORY -> "CategoryChannel"
      [] type = ChannelType_VOICE -> "VoiceChannel"
      [] type = ChannelType_STAGE -> "StageChannel"
      [] OTHER -> "GuildChannel"

----------------------------------------------------------------------------
(* Channel payloads the REST layer can return: a channel object always     *)
(* carries id, type and name; the other keys may be missing or null.       *)

ChannelMin(t, name) == [id |-> Some("1"), type |-> Some(t), name |-> Some(name)]

TextFull(t) ==
    [position |-> Some(3), parent_id |-> Some("40"), topic |-> Some("rules"),
     last_message_id |-> None, rate_limit_per_user |-> Some(5),
     default_auto_archive_duration |-> Some(1440), nsfw |-> Some(TRUE),
     last_pin_timestamp |-> Some(isoformat(100))] @@ ChannelMin(t, "general")

VoiceFull(t) ==
    [position |-> Some(3), parent_id |-> Some("40"), bitrate |-> Some(64000),
     rtc_region |-> Some("rotterdam"), user_limit |-> Some(5),
     video_quality_mode |-> Some(2)] @@ ChannelMin(t, "lounge")

CategoryFull(t) ==
    [position |-> Some(3), parent_id |-> None] @@ ChannelMin(t, "archive")

TextTypes == {ChannelType_TEXT, ChannelType_NEWS}
VoiceTypes == {ChannelType_VOICE, ChannelType_STAGE}

\* type codes that the factory has no class for
UnknownTypes == {1, 15}

ChannelPayloads(cls) ==
    CASE cls \in TextClasses ->
            {ChannelMin(t, "text") : t \in TextTypes} \cup {TextFull(t) : t \in TextTypes}
      [] cls \in VoiceClasses ->
            {ChannelMin(t, "voice") : t \in VoiceTypes} \cup {VoiceFull(t) : t \in VoiceTypes}
      [] cls = "CategoryChannel" ->
            {ChannelMin(ChannelType_CATEGORY, "category"), CategoryFull(ChannelType_CATEGORY)}
      [] OTHER ->
            {ChannelMin(t, "future") : t \in UnknownTypes}

\* edit_channel returns a payload, or nothing
ChannelResponses(cls) == {None, EmptyDict} \cup ChannelPayloads(cls)

\* the channels a guild is populated with: each built by the class that the
\* factory gives for the payload's type
InitialChannels ==
    {GuildChannel_init(_channel_factory(data["type"].some), data) :
        data \in UNION {ChannelPayloads(cls) : cls \in ChannelClasses \cup {"GuildChannel"}}}

\* categories of the guild, passed as `parent`
Categories ==
    {GuildChannel_init("CategoryChannel",
        [id |-> Some(SnowflakeWire[41]), type |-> Some(ChannelType_CATEGORY),
         name |-> Some("staff")])}

Reasons == {None, Some("audit")}

----------------------------------------------------------------------------
(* edit(): validation and the partial-update body.  The value is           *)
(* [raise |-> exception] or [json |-> body].                                *)

Raise(exc) == [raise |-> exc]
Body(json) == [json |-> json]

ArchiveDurations == {60, 1440, 4320, 10080}

\* Faulty variant: the None of the caller is sent as it is.
OrZero_Forgotten(v) == v

\* `if slowmode_delay is None: slowmode_delay = 0`, and the same for user_limit
OrZero(v) == IF v = None THEN Some(0) ELSE v

\* json["parent_id"] = parent.id if parent is not None else None
ParentId(parent) == IF parent # None THEN parent.some.id ELSE None

\* Faulty variant: NEWS is missing from the supported types.
TypeSupported_OnlyText(type) == type = ChannelType_TEXT

\* type in (ChannelType.NEWS, ChannelType.TEXT)
TypeSupported(type) == type \in {ChannelType_NEWS, ChannelType_TEXT}

\* default_auto_archive_duration in (60, 1440, 4320, 10080)
DurationSupported(duration) == duration \in ArchiveDurations

TextChannel_edit_json(kw) ==
    LET j1 == IF kw.name # EMPTY THEN Put(EmptyDict, "name", kw.name) ELSE EmptyDict
        j2 == IF kw.type # EMPTY THEN Put(j1, "type", kw.type) ELSE j1
        j3 == IF kw.position # EMPTY THEN Put(j2, "position", kw.position) ELSE j2
        j4 == IF kw.nsfw # EMPTY THEN Put(j3, "nsfw", kw.nsfw) ELSE j3
        j5 == IF kw.topic # EMPTY THEN Put(j4, "topic", kw.topic) ELSE j4
        slowmode_delay == OrZero(kw.slowmode_delay)
        j6 == IF kw.slowmode_delay # EMPTY
              THEN Put(j5, "rate_limit_per_user", slowmode_delay) ELSE j5
        j7 == IF kw.default_auto_archive_duration # EMPTY
              THEN Put(j6, "default_auto_archive_duration", kw.default_auto_archive_duration)
              ELSE j6
        j8 == IF kw.parent # EMPTY THEN Put(j7, "parent_id", ParentId(kw.parent)) ELSE j7
    IN  IF kw.type # EMPTY /\ ~TypeSupported(kw.type.some)
        THEN Raise("ValueError")
        ELSE IF kw.default_auto_archive_duration # EMPTY
                /\ ~DurationSupported(kw.default_auto_archive_duration.some)
        THEN Raise("ValueError")
        ELSE Body(j8)

\* Faulty variant: the sentinel test of `position` written against None.
CategoryChannel_edit_json_NoneForEmpty(kw) ==
    LET j1 == IF kw.name # EMPTY THEN Put(EmptyDict, "name", kw.name) ELSE EmptyDict
        j2 == IF kw.position # None THEN Put(j1, "position", kw.position) ELSE j1
    IN  Body(j2)

CategoryChannel_edit_json(kw) ==
    LET j1 == IF kw.name # EMPTY THEN Put(EmptyDict, "name", kw.name) ELSE EmptyDict
        j2 == IF kw.position # EMPTY THEN Put(j1, "position", kw.position) ELSE j1
    IN  Body(j2)

MinBitrate == 8000
MaxBitrate == 128000

\* Faulty variant: the two ends of the range are rejected too.
BitrateOutOfRange_Exclusive(bitrate) == bitrate <= MinBitrate \/ bitrate >= MaxBitrate

\* bitrate < 8000 or bitrate > 128000
BitrateOutOfRange(bitrate) == bitrate < MinBitrate \/ bitrate > MaxBitrate

\* Faulty variant: `if rtc_region:` in place of `if rtc_region is not EMPTY:`.
VoiceChannel_edit_json_TruthTest(kw) ==
    LET j1 == IF kw.name # EMPTY THEN Put(EmptyDict, "name", kw.name) ELSE EmptyDict
        j2 == IF kw.position # EMPTY THEN Put(j1, "position", kw.position) ELSE j1
        j3 == IF kw.rtc_region # EMPTY /\ kw.rtc_region # None
              THEN Put(j2, "rtc_region", kw.rtc_region) ELSE j2
        j4 == IF kw.bitrate # EMPTY THEN Put(j3, "bitrate", kw.bitrate) ELSE j3
        user_limit == OrZero(kw.user_limit)
        j5 == IF kw.user_limit # EMPTY THEN Put(j4, "user_limit", user_limit) ELSE j4
        j6 == IF kw.video_quality_mode # EMPTY
              THEN Put(j5, "video_quality_mode", kw.video_quality_mode) ELSE j5
        j7 == IF kw.parent # EMPTY THEN Put(j6, "parent_id", ParentId(kw.parent)) ELSE j6
    IN  IF kw.bitrate # EMPTY /\ BitrateOutOfRange(kw.bitrate.some)
        THEN Raise("ValueError")
        ELSE Body(j7)

VoiceChannel_edit_json(kw) ==
    LET j1 == IF kw.name # EMPTY THEN Put(EmptyDict, "name", kw.name) ELSE EmptyDict
        j2 == IF kw.position # EMPTY THEN Put(j1, "position", kw.position) ELSE j1
        j3 == IF kw.rtc_region # EMPTY THEN Put(j2, "rtc_region", kw.rtc_region) ELSE j2
        j4 == IF kw.bitrate # EMPTY THEN Put(j3, "bitrate", kw.bitrate) ELSE j3
        user_limit == OrZero(kw.user_limit)
        j5 == IF kw.user_limit # EMPTY THEN Put(j4, "user_limit", user_limit) ELSE j4
        j6 == IF kw.video_quality_mode # EMPTY
              THEN Put(j5, "video_quality_mode", kw.video_quality_mode) ELSE j5
        j7 == IF kw.parent # EMPTY THEN Put(j6, "parent_id", ParentId(kw.parent)) ELSE j6
    IN  IF kw.bitrate # EMPTY /\ BitrateOutOfRange(kw.bitrate.some)
        THEN Raise("ValueError")
        ELSE Body(j7)

\* The arguments a caller can pass (EMPTY: the parameter is left out).
Parents == {EMPTY, None} \cup {Some(c) : c \in Categories}

TextChannel_edit_args ==
    [name : {EMPTY, Some("renamed")},
     type : {EMPTY, Some(ChannelType_TEXT), Some(ChannelType_NEWS), Some(ChannelType_VOICE)},
     position : {EMPTY, Some(4)},
     nsfw : {EMPTY, Some(TRUE)},
     parent : Parents,
     topic : {EMPTY, None, Some("welcome")},
     slowmode_delay : {EMPTY, None, Some(10)},
     default_auto_archive_duration :
        {EMPTY} \cup {Some(d) : d \in ArchiveDurations \cup {120}}]

CategoryChannel_edit_args ==
    [name : {EMPTY, Some("renamed")}, position : {EMPTY, Some(4)}]

VoiceChannel_edit_args ==
    [name : {EMPTY, Some("renamed")},
     position : {EMPTY, Some(4)},
     bitrate : {EMPTY} \cup {Some(b) : b \in {MinBitrate - 1, MinBitrate, 96000,
                                              MaxBitrate, MaxBitrate + 1}},
     parent : Parents,
     rtc_region : {EMPTY, None, Some("japan")},
     user_limit : {EMPTY, None, Some(10)},
     video_quality_mode : {EMPTY, Some(2)}]

----------------------------------------------------------------------------
(* Guild members *)

MaxRoles == 2

RoleIds == {11, 12, 13}

Role(id) == [cls |-> "Role", id |-> Some(id)]

\* guild.cache.get_role(role_id)
get_role(cache, role_id) == IF role_id.some \in cache THEN Role(role_id.some) ELSE None

User(data) == [cls |-> "User", id |-> Some(IntOfStr(data["id"].some)), name |-> data["username"]]

ParseSnowflake(role_id) == Some(IntOfStr(role_id.some))

OptionalTimestamp(v) == IF v # None THEN Some(parse_iso_timestamp(v.some)) ELSE None

\* Faulty variant: an id that guild.cache has no role for gets no entry in roles.
GuildMember_update_with_data_SkipsMissing(obj, cache, data) ==
    LET premium_since == Get(data, "premium_since", None)
        timeout_until == Get(data, "communication_disabled_until", None)
        wire_ids == Get(data, "roles", Some(<<>>)).some
        role_ids == [i \in 1..Len(wire_ids) |-> ParseSnowflake(wire_ids[i])]
        roles == [i \in 1..Len(role_ids) |-> get_role(cache, role_ids[i])]
    IN  [user |-> User(data["user"]),
         nickname |-> Get(data, "nick", None),
         avatar |-> Get(data, "avatar", None),
         deaf |-> Get(data, "deaf", Some(FALSE)),
         mute |-> Get(data, "mute", Some(FALSE)),
         pending |-> Get(data, "pending", Some(FALSE)),
         joined_at |-> Some(parse_iso_timestamp(data["joined_at"].some)),
         premium_since |-> OptionalTimestamp(premium_since),
         timeout_until |-> OptionalTimestamp(timeout_until),
         role_ids |-> Some(role_ids),
         roles |-> Some(SelectSeq(roles, LAMBDA role : role # None))] @@ obj

GuildMember_update_with_data(obj, cache, data) ==
    LET premium_since == Get(data, "premium_since", None)
        timeout_until == Get(data, "communication_disabled_until", None)
        wire_ids == Get(data, "roles", Some(<<>>)).some
        role_ids == [i \in 1..Len(wire_ids) |-> ParseSnowflake(wire_ids[i])]
        roles == [i \in 1..Len(role_ids) |-> get_role(cache, role_ids[i])]
    IN  [user |-> User(data["user"]),
         nickname |-> Get(data, "nick", None),
         avatar |-> Get(data, "avatar", None),
         deaf |-> Get(data, "deaf", Some(FALSE)),
         mute |-> Get(data, "mute", Some(FALSE)),
         pending |-> Get(data, "pending", Some(FALSE)),
         joined_at |-> Some(parse_iso_timestamp(data["joined_at"].some)),
         premium_since |-> OptionalTimestamp(premium_since),
         timeout_until |-> OptionalTimestamp(timeout_until),
         role_ids |-> Some(role_ids),
         roles |-> Some(roles)] @@ obj

GuildMember_init(cache, data) ==
    GuildMember_update_with_data([cls |-> "GuildMember"], cache, data)

\* A member object always carries user and joined_at.
MemberMin ==
    [user |-> [id |-> Some("2"), username |-> Some("bob")],
     joined_at |-> Some(isoformat(100))]

MemberFull(roles) ==
    [nick |-> Some("bobby"), avatar |-> None, deaf |-> Some(TRUE), mute |-> Some(TRUE),
     pending |-> Some(FALSE), premium_since |-> Some(isoformat(200)),
     communication_disabled_until |-> Some(isoformat(300)),
     roles |-> Some([i \in 1..Len(roles) |-> Some(SnowflakeWire[roles[i]])])] @@ MemberMin

MemberPayloads == {MemberMin, MemberFull(<<11>>), MemberFull(<<12, 11>>)}

RoleCaches == {RoleIds, RoleIds \ {12}}

\* [role.id for role in roles]
RoleIdsOf(roles) == [i \in 1..Len(roles) |-> roles[i].id]

\* Faulty variant: the given roles are added to the roles the member has.
GuildMember_edit_json_Additive(kw) ==
    LET j1 == IF kw.nickname # EMPTY THEN Put(EmptyDict, "nick", kw.nickname) ELSE EmptyDict
        roles == IF kw.roles = None THEN Some(<<>>) ELSE kw.roles
        j2 == IF kw.roles # EMPTY
              THEN Put(j1, "roles", Some(self.role_ids.some \o RoleIdsOf(roles.some)))
              ELSE j1
        j3 == IF kw.mute # EMPTY THEN Put(j2, "mute", kw.mute) ELSE j2
        j4 == IF kw.deaf # EMPTY THEN Put(j3, "deaf", kw.deaf) ELSE j3
        j5 == IF kw.timeout_until # EMPTY
              THEN Put(j4, "communication_disabled_until",
                       IF kw.timeout_until # None
                       THEN Some(isoformat(kw.timeout_until.some)) ELSE None)
              ELSE j4
    IN  Body(j5)

GuildMember_edit_json(kw) ==
    LET j1 == IF kw.nickname # EMPTY THEN Put(EmptyDict, "nick", kw.nickname) ELSE EmptyDict
        roles == IF kw.roles = None THEN Some(<<>>) ELSE kw.roles
        j2 == IF kw.roles # EMPTY
              THEN Put(j1, "roles", Some(RoleIdsOf(roles.some))) ELSE j1
        j3 == IF kw.mute # EMPTY THEN Put(j2, "mute", kw.mute) ELSE j2
        j4 == IF kw.deaf # EMPTY THEN Put(j3, "deaf", kw.deaf) ELSE j3
        j5 == IF kw.timeout_until # EMPTY
              THEN Put(j4, "communication_disabled_until",
                       IF kw.timeout_until # None
                       THEN Some(isoformat(kw.timeout_until.some)) ELSE None)
              ELSE j4
    IN  Body(j5)

\* *roles: up to MaxRoles roles, repetitions allowed
RoleLists == UNION {[1..n -> {Role(id) : id \in RoleIds}] : n \in 0..MaxRoles}

GuildMember_edit_args ==
    [nickname : {EMPTY, None, Some("nick")},
     roles : {EMPTY, None} \cup {Some(roles) : roles \in RoleLists},
     mute : {EMPTY, Some(TRUE)},
     deaf : {EMPTY, Some(FALSE)},
     timeout_until : {EMPTY, None, Some(200)}]

\* edit(roles=roles), as add_roles and remove_roles call it
OnlyRoles(roles) ==
    [nickname |-> EMPTY, roles |-> Some(roles), mute |-> EMPTY, deaf |-> EMPTY,
     timeout_until |-> EMPTY]

----------------------------------------------------------------------------
(* Operations *)

\* The tail of every edit(): `if json: data = await rest.edit_...(json=json, ...)`.
\* `o` is the operation (its name and arguments), `out` the outcome of
\* validation, `call` the REST call without its body.
EditBegin(o, out, call) ==
    /\ op' = o
    /\ before' = self
    /\ completed' = 0
    /\ resp' = None
    /\ ret' = None
    /\ IF "raise" \in DOMAIN out
       THEN pc' = "done" /\ result' = out.raise /\ calls' = <<>>
       ELSE IF ~Truthy(out.json)
       THEN pc' = "done" /\ result' = "returned" /\ calls' = <<>>
       ELSE /\ pc' = "await_edit"
            /\ result' = "running"
            /\ calls' = <<Put(call, "json", out.json)>>
    /\ UNCHANGED <<self, roleCache>>
    /\ UNCHANGED <<hydrated, env>>

EditOp(kw, reason) == [name |-> "edit", kw |-> kw, reason |-> reason]

edit_channel(reason) == [fn |-> "edit_channel", channel_id |-> self.id, reason |-> reason]

edit_guild_member(reason) ==
    [fn |-> "edit_guild_member", guild_id |-> Guild.id, user_id |-> self.user.id,
     reason |-> reason]

TextChannel_edit ==
    /\ pc = "idle"
    /\ self.cls \in TextClasses
    /\ \E kw \in TextChannel_edit_args, reason \in Reasons :
          EditBegin(EditOp(kw, reason), TextChannel_edit_json(kw), edit_channel(reason))

CategoryChannel_edit ==
    /\ pc = "idle"
    /\ self.cls = "CategoryChannel"
    /\ \E kw \in CategoryChannel_edit_args, reason \in Reasons :
          EditBegin(EditOp(kw, reason), CategoryChannel_edit_json(kw), edit_channel(reason))

VoiceChannel_edit ==
    /\ pc = "idle"
    /\ self.cls \in VoiceClasses
    /\ \E kw \in VoiceChannel_edit_args, reason \in Reasons :
          EditBegin(EditOp(kw, reason), VoiceChannel_edit_json(kw), edit_channel(reason))

\* the type codes a payload can carry
TypeCodes == TextTypes \cup VoiceTypes \cup {ChannelType_CATEGORY} \cup UnknownTypes

\* the guild asks the factory for the class of a channel payload
ChannelFactory_call ==
    /\ pc = "idle"
    /\ \E type \in TypeCodes :
          /\ op' = [name |-> "_channel_factory", type |-> type]
          /\ ret' = Some(_channel_factory(type))
    /\ before' = self
    /\ calls' = <<>>
    /\ completed' = 0
    /\ resp' = None
    /\ pc' = "done"
    /\ result' = "returned"
    /\ UNCHANGED <<self, roleCache, hydrated, env>>

\* edit() of the base class: `raise NotImplementedError(...)`
GuildChannel_edit ==
    /\ pc = "idle"
    /\ self.cls = "GuildChannel"
    /\ \E kw \in CategoryChannel_edit_args, reason \in Reasons :
          EditBegin(EditOp(kw, reason), Raise("NotImplementedError"), edit_channel(reason))

\* edit_channel returns: `if data: self._update_with_data(data)`
Channel_edit_resume ==
    /\ pc = "await_edit"
    /\ self.cls \in ChannelClasses
    /\ \E data \in ChannelResponses(self.cls) :
          /\ resp' = data
          /\ self' = IF Truthy(data) THEN Channel_update_with_data(self, data) ELSE self
    /\ completed' = completed + 1
    /\ pc' = "done"
    /\ result' = "returned"
    /\ UNCHANGED <<roleCache, op, before, calls, ret>>
    /\ UNCHANGED <<hydrated, env>>

GuildMember_edit ==
    /\ pc = "idle"
    /\ self.cls = "GuildMember"
    /\ \E kw \in GuildMember_edit_args, reason \in Reasons :
          EditBegin(EditOp(kw, reason), GuildMember_edit_json(kw), edit_guild_member(reason))

\* Faulty variant: add_roles and remove_roles return the roles they were given.
EditReturns_GivenRoles(o, obj) == IF o.name = "edit" THEN None ELSE Some(o.roles)

\* what the method returns once edit() is over: edit returns nothing,
\* add_roles and remove_roles `return self.roles`
EditReturns(o, obj) == IF o.name = "edit" THEN None ELSE obj.roles

\* edit_guild_member returns: `self._update_with_data(data)`
GuildMember_edit_resume ==
    /\ pc = "await_edit"
    /\ self.cls = "GuildMember"
    /\ \E data \in MemberPayloads :
          /\ resp' = data
          /\ self' = GuildMember_update_with_data(self, roleCache, data)
    /\ ret' = EditReturns(op, self')
    /\ completed' = completed + 1
    /\ pc' = "done"
    /\ result' = "returned"
    /\ UNCHANGED <<roleCache, op, before, calls>>
    /\ hydrated' = roleCache
    /\ UNCHANGED env

\* Faulty variant: ignore_extra is not looked at.
AddSkips_FlagIgnored(role, existing_roles, ignore_extra) ==
    \E i \in 1..Len(existing_roles.some) : existing_roles.some[i] = role.id

\* add_roles: `role.id in existing_roles and ignore_extra`
AddSkips(role, existing_roles, ignore_extra) ==
    (\E i \in 1..Len(existing_roles.some) : existing_roles.some[i] = role.id) /\ ignore_extra

\* Faulty variant: the test of add_roles, `role.id in existing_roles`.
RemoveSkips_AsInAdd(role, existing_roles, ignore_extra) ==
    (\E i \in 1..Len(existing_roles.some) : existing_roles.some[i] = role.id) /\ ignore_extra

\* remove_roles: `role.id not in existing_roles and ignore_extra`
RemoveSkips(role, existing_roles, ignore_extra) ==
    ~(\E i \in 1..Len(existing_roles.some) : existing_roles.some[i] = role.id) /\ ignore_extra

Skips(o, role) ==
    IF o.name = "add_roles"
    THEN AddSkips(role, o.existing_roles, o.ignore_extra)
    ELSE RemoveSkips(role, o.existing_roles, o.ignore_extra)

\* the first index from i on whose role is not skipped by `continue`
\* (Len + 1: the for loop is over)
NextRole(o, i) ==
    LET rest == {j \in i..Len(o.roles) : ~Skips(o, o.roles[j])}
    IN  IF rest = {} THEN Len(o.roles) + 1
        ELSE CHOOSE j \in rest : \A k \in rest : j <= k

role_call(o, role) ==
    [fn |-> IF o.name = "add_roles" THEN "add_guild_member_role"
            ELSE "remove_guild_member_role",
     guild_id |-> Guild.id, user_id |-> self.user.id, role_id |-> role.id,
     reason |-> o.reason]

\* Runs the for loop of add_roles/remove_roles from index i to its next await,
\* or to `return ret`.
RolesLoop(o, i, issued, list) ==
    LET j == NextRole(o, i) IN
    /\ op' = [o EXCEPT !.i = j]
    /\ IF j > Len(o.roles)
       THEN pc' = "done" /\ result' = "returned" /\ calls' = issued
       ELSE /\ pc' = "await_role"
            /\ result' = "running"
            /\ calls' = Append(issued, role_call(o, o.roles[j]))
    /\ ret' = Some(list)

RolesBegin(o) ==
    /\ before' = self
    /\ completed' = 0
    /\ resp' = None
    /\ RolesLoop(o @@ [existing_roles |-> self.role_ids, i |-> 1], 1, <<>>, <<>>)
    /\ UNCHANGED <<self, roleCache>>
    /\ UNCHANGED <<hydrated, env>>

GuildMember_add_roles ==
    /\ pc = "idle"
    /\ self.cls = "GuildMember"
    /\ \E roles \in RoleLists, overwrite \in BOOLEAN, ignore_extra \in BOOLEAN,
          reason \in Reasons :
          LET o == [name |-> "add_roles", roles |-> roles, overwrite |-> overwrite,
                    ignore_extra |-> ignore_extra, reason |-> reason]
          IN  IF roles # <<>> /\ overwrite
              THEN EditBegin(o, GuildMember_edit_json(OnlyRoles(roles)),
                             edit_guild_member(reason))
              ELSE RolesBegin(o)

GuildMember_remove_roles ==
    /\ pc = "idle"
    /\ self.cls = "GuildMember"
    /\ \E roles \in RoleLists, ignore_extra \in BOOLEAN, reason \in Reasons :
          LET o == [name |-> "remove_roles", roles |-> roles,
                    ignore_extra |-> ignore_extra, reason |-> reason]
          IN  IF roles = <<>>
              THEN EditBegin(o, GuildMember_edit_json(OnlyRoles(<<>>)),
                             edit_guild_member(reason))
              ELSE RolesBegin(o)

\* Faulty variant: the id of the role is put into (add_roles) or taken out of
\* (remove_roles) role_ids when its call has returned.
Roles_resume_UpdatesMember ==
    /\ pc = "await_role"
    /\ completed' = completed + 1
    /\ resp' = None
    /\ RolesLoop(op, op.i + 1, calls, Append(ret.some, op.roles[op.i]))
    /\ self' = [self EXCEPT !.role_ids =
                    IF op.name = "add_roles"
                    THEN Some(Append(@.some, op.roles[op.i].id))
                    ELSE Some(SelectSeq(@.some, LAMBDA id : id # op.roles[op.i].id))]
    /\ UNCHANGED <<roleCache, before>>
    /\ UNCHANGED <<hydrated, env>>

\* add_guild_member_role / remove_guild_member_role returns:
\* `ret.append(role)`, then on with the loop
Roles_resume ==
    /\ pc = "await_role"
    /\ completed' = completed + 1
    /\ resp' = None
    /\ RolesLoop(op, op.i + 1, calls, Append(ret.some, op.roles[op.i]))
    /\ UNCHANGED <<self, roleCache, before>>
    /\ UNCHANGED <<hydrated, env>>

\* delete() and kick(): one REST call that returns no body
CallBegin(o, call) ==
    /\ op' = o
    /\ before' = self
    /\ completed' = 0
    /\ resp' = None
    /\ ret' = None
    /\ pc' = "await_call"
    /\ result' = "running"
    /\ calls' = <<call>>
    /\ UNCHANGED <<self, roleCache>>
    /\ UNCHANGED <<hydrated, env>>

delete_channel(reason) == [fn |-> "delete_channel", channel_id |-> self.id, reason |-> reason]

kick_guild_member(reason) ==
    [fn |-> "kick_guild_member", guild_id |-> Guild.id, user_id |-> self.user.id,
     reason |-> reason]

GuildChannel_delete ==
    /\ pc = "idle"
    /\ self.cls \in ChannelClasses \cup {"GuildChannel"}
    /\ \E reason \in Reasons :
          CallBegin([name |-> "delete", reason |-> reason], delete_channel(reason))

GuildMember_kick ==
    /\ pc = "idle"
    /\ self.cls = "GuildMember"
    /\ \E reason \in Reasons :
          CallBegin([name |-> "kick", reason |-> reason], kick_guild_member(reason))

\* delete_channel / kick_guild_member returns: the method returns
Call_resume ==
    /\ pc = "await_call"
    /\ completed' = completed + 1
    /\ pc' = "done"
    /\ result' = "returned"
    /\ UNCHANGED <<self, roleCache, op, before, calls, resp, ret>>
    /\ UNCHANGED <<hydrated, env>>

\* Faulty variant: when a call of the for loop raises, the call for the next
\* role is still issued before the exception leaves the method.
Rest_raises_LoopGoesOn ==
    /\ pc \in {"await_edit", "await_role", "await_call"}
    /\ pc' = "done"
    /\ result' = "HTTPException"
    /\ calls' = IF pc = "await_role" /\ NextRole(op, op.i + 1) <= Len(op.roles)
                THEN Append(calls, role_call(op, op.roles[NextRole(op, op.i + 1)]))
                ELSE calls
    /\ UNCHANGED <<self, roleCache, op, before, completed, resp, ret>>
    /\ UNCHANGED <<hydrated, env>>

\* the awaited REST call raises (HTTPForbidden, HTTPException, cancellation):
\* the exception leaves the method
Rest_raises ==
    /\ pc \in {"await_edit", "await_role", "await_call"}
    /\ pc' = "done"
    /\ result' = "HTTPException"
    /\ UNCHANGED <<self, roleCache, op, before, calls, completed, resp, ret>>
    /\ UNCHANGED <<hydrated, env>>

\* The caller has the outcome of the operation (its return value or its
\* exception) and goes on; the frame of the operation is gone.
Caller_continues ==
    /\ pc = "done"
    /\ pc' = "idle"
    /\ op' = [name |-> "none"]
    /\ before' = self
    /\ calls' = <<>>
    /\ completed' = 0
    /\ resp' = None
    /\ result' = "none"
    /\ ret' = None
    /\ UNCHANGED <<self, roleCache>>
    /\ UNCHANGED <<hydrated, env>>

----------------------------------------------------------------------------
(* The channel cache of the guild: the entity, when it is a channel, and   *)
(* the other channels, which come, go and are re-hydrated as events of the *)
(* guild arrive.                                                            *)

MaxCached == 2

\* a channel payload of the guild with the given id, type and parent_id
\* (EMPTY: the payload has no parent_id)
CachedPayload(id, type, parent) ==
    LET data == [id |-> Some(SnowflakeWire[id]), type |-> Some(type),
                 name |-> Some("cached")]
    IN  IF parent = EMPTY THEN data ELSE Put(data, "parent_id", parent)

CachePayloads ==
    {CachedPayload(7, ChannelType_TEXT, parent) :
        parent \in {EMPTY, None, Some(SnowflakeWire[40])}}
    \cup {CachedPayload(8, ChannelType_VOICE, parent) :
        parent \in {Some(SnowflakeWire[1]), Some(SnowflakeWire[40])}}

\* guild.cache.channels()
guild_cache_channels ==
    (IF self.cls \in ChannelClasses \cup {"GuildChannel"} THEN <<self>> ELSE <<>>)
    \o channels

\* a channel of the guild is created
Cache_add ==
    /\ Len(channels) < MaxCached
    /\ \E data \in CachePayloads :
          LET channel == GuildChannel_init(_channel_factory(data["type"].some), data)
          IN  /\ \A i \in 1..Len(guild_cache_channels) :
                    guild_cache_channels[i].id # channel.id
              /\ channels' = Append(channels, channel)
    /\ UNCHANGED <<self, roleCache, pc, op, before, calls, completed, resp, result, ret,
                   now, hydrated, other>>

\* a channel of the guild is deleted
Cache_remove ==
    /\ \E i \in 1..Len(channels) :
          channels' = SubSeq(channels, 1, i - 1) \o SubSeq(channels, i + 1, Len(channels))
    /\ UNCHANGED <<self, roleCache, pc, op, before, calls, completed, resp, result, ret,
                   now, hydrated, other>>

\* a fresh payload for a cached channel arrives: the channel is re-hydrated
Cache_rehydrate ==
    /\ \E i \in 1..Len(channels), data \in CachePayloads :
          /\ Some(IntOfStr(data["id"].some)) = channels[i].id
          /\ channels' = [channels EXCEPT ![i] = Channel_update_with_data(@, data)]
          /\ channels' # channels
    /\ UNCHANGED <<self, roleCache, pc, op, before, calls, completed, resp, result, ret,
                   now, hydrated, other>>

\* the categories whose `channels` is read: one that the payloads name as
\* parent, and the entity when it is a category
Category40 ==
    GuildChannel_init("CategoryChannel",
        [id |-> Some(SnowflakeWire[40]), type |-> Some(ChannelType_CATEGORY),
         name |-> Some("lobby")])

ReadCategories == {Category40} \cup (IF self.cls = "CategoryChannel" THEN {self} ELSE {})

\* Faulty variant: every channel that has a parent.
CategoryChannel_channels_AnyParent(category, cached) ==
    SelectSeq(cached, LAMBDA channel : channel.parent_id # None)

\* [channel for channel in channels if channel.parent_id == self.id]
CategoryChannel_channels(category, cached) ==
    SelectSeq(cached, LAMBDA channel : channel.parent_id = category.id)

\* category.channels, read by a caller that has no operation running
CategoryChannel_channels_read ==
    /\ pc = "idle"
    /\ \E category \in ReadCategories :
          /\ op' = [name |-> "channels", category |-> category,
                    channels |-> guild_cache_channels]
          /\ ret' = Some(CategoryChannel_channels(category, guild_cache_channels))
    /\ before' = self
    /\ calls' = <<>>
    /\ completed' = 0
    /\ resp' = None
    /\ pc' = "done"
    /\ result' = "returned"
    /\ UNCHANGED <<self, roleCache, hydrated, env>>

----------------------------------------------------------------------------
(* Two call sites edit the same cached entity: the second calls edit()     *)
(* while the edit of the first is suspended at its REST call.  `other` is  *)
(* the frame of the second: its place (pc), its call, and what came back.  *)

\* the edit() of the class: its parameters, its body, its REST call
edit_args(cls) ==
    CASE cls \in TextClasses -> TextChannel_edit_args
      [] cls \in VoiceClasses -> VoiceChannel_edit_args
      [] cls = "CategoryChannel" -> CategoryChannel_edit_args
      [] OTHER -> GuildMember_edit_args

edit_json(cls, kw) ==
    CASE cls \in TextClasses -> TextChannel_edit_json(kw)
      [] cls \in VoiceClasses -> VoiceChannel_edit_json(kw)
      [] cls = "CategoryChannel" -> CategoryChannel_edit_json(kw)
      [] OTHER -> GuildMember_edit_json(kw)

edit_call(cls, reason) ==
    IF cls = "GuildMember" THEN edit_guild_member(reason) ELSE edit_channel(reason)

\* every parameter left out
Omitted(cls) == CHOOSE kw \in edit_args(cls) : \A k \in DOMAIN kw : kw[k] = EMPTY

\* what the two call sites pass: one field each
RaceArgs(cls) ==
    IF cls = "GuildMember"
    THEN {[Omitted(cls) EXCEPT !.nickname = Some("nick")],
          [Omitted(cls) EXCEPT !.roles = Some(<<Role(13)>>)]}
    ELSE {[Omitted(cls) EXCEPT !.name = Some("renamed")],
          [Omitted(cls) EXCEPT !.position = Some(4)]}

\* the first call site calls edit()
First_edit ==
    /\ pc = "idle"
    /\ other.pc = "idle"
    /\ self.cls \in ChannelClasses \cup {"GuildMember"}
    /\ \E kw \in RaceArgs(self.cls), reason \in Reasons :
          EditBegin(EditOp(kw, reason), edit_json(self.cls, kw),
                    edit_call(self.cls, reason))

\* the second call site calls edit() while the first edit is suspended
Second_edit ==
    /\ pc = "await_edit"
    /\ other.pc = "idle"
    /\ \E kw \in RaceArgs(self.cls), reason \in Reasons :
          other' = [pc |-> "await_edit",
                    op |-> EditOp(kw, reason),
                    call |-> Put(edit_call(self.cls, reason), "json",
                                 edit_json(self.cls, kw).json)]
    /\ UNCHANGED <<self, roleCache, pc, op, before, calls, completed, resp, result, ret,
                   now, hydrated, channels>>

\* the responses that the edit call of the class can return
edit_responses(cls) ==
    IF cls = "GuildMember" THEN MemberPayloads ELSE ChannelResponses(cls)

\* what the tail of edit() makes of the entity when `data` has come back
Rehydrated(obj, cache, data) ==
    IF obj.cls = "GuildMember"
    THEN GuildMember_update_with_data(obj, cache, data)
    ELSE IF Truthy(data) THEN Channel_update_with_data(obj, data) ELSE obj

\* Faulty variant: a response that comes back after the response of an edit
\* issued earlier was applied is taken for stale and dropped.
Second_edit_resume_FirstWins ==
    /\ other.pc = "await_edit"
    /\ \E data \in edit_responses(self.cls) :
          /\ other' = [other EXCEPT !.pc = "done"] @@
                       [resp |-> data, result |-> "returned",
                        last |-> pc = "done" /\ result = "returned"]
          /\ self' = IF pc = "done" /\ result = "returned"
                     THEN self ELSE Rehydrated(self, roleCache, data)
    /\ hydrated' = IF self.cls = "GuildMember" THEN roleCache ELSE hydrated
    /\ UNCHANGED <<roleCache, pc, op, before, calls, completed, resp, result, ret,
                   now, channels>>

\* the REST call of the second edit returns; `last` tells whether the
\* response of the first edit had come back before
Second_edit_resume ==
    /\ other.pc = "await_edit"
    /\ \E data \in edit_responses(self.cls) :
          /\ other' = [other EXCEPT !.pc = "done"] @@
                       [resp |-> data, result |-> "returned",
                        last |-> pc = "done" /\ result = "returned"]
          /\ self' = Rehydrated(self, roleCache, data)
    /\ hydrated' = IF self.cls = "GuildMember" THEN roleCache ELSE hydrated
    /\ UNCHANGED <<roleCache, pc, op, before, calls, completed, resp, result, ret,
                   now, channels>>

\* the REST call of the second edit raises
Second_rest_raises ==
    /\ other.pc = "await_edit"
    /\ other' = [other EXCEPT !.pc = "done"] @@
                 [resp |-> None, result |-> "HTTPException", last |-> FALSE]
    /\ UNCHANGED <<self, roleCache, pc, op, before, calls, completed, resp, result, ret,
                   now, hydrated, channels>>

\* the call sites have their outcome and go on
Callers_continue ==
    /\ pc = "done"
    /\ other.pc \in {"idle", "done"}
    /\ pc' = "idle"
    /\ op' = [name |-> "none"]
    /\ before' = self
    /\ calls' = <<>>
    /\ completed' = 0
    /\ resp' = None
    /\ result' = "none"
    /\ ret' = None
    /\ other' = [pc |-> "idle"]
    /\ UNCHANGED <<self, roleCache, now, hydrated, channels>>

----------------------------------------------------------------------------
(* The member over time: the clock and the role cache of the guild change  *)
(* while the member object stays as it was hydrated.                        *)

MaxNow == 301

\* the instant of the clock at which the entity is constructed
FirstInstant == 299

\* time passes
Clock_tick ==
    /\ now < MaxNow
    /\ now' = now + 1
    /\ UNCHANGED <<self, roleCache, pc, op, before, calls, completed, resp, result, ret,
                   hydrated, channels, other>>

\* a role of the guild is created or deleted: guild.cache changes
RoleCache_changes ==
    /\ roleCache' \in RoleCaches \ {roleCache}
    /\ UNCHANGED <<self, pc, op, before, calls, completed, resp, result, ret,
                   hydrated, env>>

\* Faulty variant: timed out until the instant of timeout_until included.
is_timed_out_Inclusive(obj, t) ==
    IF obj.timeout_until = None THEN FALSE ELSE t <= obj.timeout_until.some

\* the body of is_timed_out(), `t` being the value of datetime.now()
is_timed_out(obj, t) ==
    IF obj.timeout_until = None THEN FALSE ELSE t < obj.timeout_until.some

\* member.is_timed_out(), called by a caller that has no operation running,
\* or again by the caller that has just called it (prev: what it got then)
GuildMember_is_timed_out ==
    /\ self.cls = "GuildMember"
    /\ pc = "idle" \/ (pc = "done" /\ op.name = "is_timed_out")
    /\ op' = [name |-> "is_timed_out", now |-> now,
              prev |-> IF pc = "done" THEN ret ELSE None]
    /\ before' = self
    /\ calls' = <<>>
    /\ completed' = 0
    /\ resp' = None
    /\ ret' = Some(is_timed_out(self, now))
    /\ pc' = "done"
    /\ result' = "returned"
    /\ UNCHANGED <<self, roleCache, hydrated, env>>

InitialMembers(cache) == {GuildMember_init(cache, data) : data \in MemberPayloads}

Init ==
    /\ roleCache \in RoleCaches
    /\ self \in InitialChannels \cup InitialMembers(roleCache)
    /\ pc = "idle"
    /\ op = [name |-> "none"]
    /\ before = self
    /\ calls = <<>>
    /\ completed = 0
    /\ resp = None
    /\ result = "none"
    /\ ret = None
    /\ now = FirstInstant
    /\ hydrated = roleCache
    /\ channels = <<>>
    /\ other = [pc |-> "idle"]

Next ==
    \/ TextChannel_edit
    \/ CategoryChannel_edit
    \/ VoiceChannel_edit
    \/ GuildChannel_edit
    \/ Channel_edit_resume
    \/ GuildMember_edit
    \/ GuildMember_edit_resume
    \/ GuildMember_add_roles
    \/ GuildMember_remove_roles
    \/ Roles_resume
    \/ GuildChannel_delete
    \/ GuildMember_kick
    \/ Call_resume
    \/ Rest_raises
    \/ ChannelFactory_call
    \/ Caller_continues

Spec == Init /\ [][Next]_vars

\* An entity and two call sites that edit it.
NextRace ==
    \/ First_edit
    \/ Second_edit
    \/ Channel_edit_resume
    \/ GuildMember_edit_resume
    \/ Second_edit_resume
    \/ Rest_raises
    \/ Second_rest_raises
    \/ Callers_continue

SpecRace == Init /\ [][NextRace]_vars

\* A voice channel or a category, its operations, and the channel cache.
InitCache ==
    /\ Init
    /\ self.cls \in {"VoiceChannel", "CategoryChannel"}
    /\ roleCache = RoleIds

NextCache ==
    \/ VoiceChannel_edit
    \/ CategoryChannel_edit
    \/ Channel_edit_resume
    \/ Rest_raises
    \/ Caller_continues
    \/ Cache_add
    \/ Cache_remove
    \/ Cache_rehydrate
    \/ CategoryChannel_channels_read

SpecCache == InitCache /\ [][NextCache]_vars

\* A guild member, its operations, the clock and the role cache.
InitMember == Init /\ self.cls = "GuildMember"

NextMember ==
    \/ GuildMember_edit
    \/ GuildMember_edit_resume
    \/ GuildMember_add_roles
    \/ GuildMember_remove_roles
    \/ Roles_resume
    \/ GuildMember_kick
    \/ Call_resume
    \/ Rest_raises
    \/ Caller_continues
    \/ GuildMember_is_timed_out
    \/ Clock_tick
    \/ RoleCache_changes

SpecMember == InitMember /\ [][NextMember]_vars

----------------------------------------------------------------------------
(* Properties *)

\* the parameters of the edit in `o` that the caller passed
Given(o) == {k \in DOMAIN o.kw : o.kw[k] # EMPTY}

\* the key of the body that each parameter of an edit is sent under
WireKey ==
    [name |-> "name", type |-> "type", position |-> "position", nsfw |-> "nsfw",
     parent |-> "parent_id", topic |-> "topic",
     slowmode_delay |-> "rate_limit_per_user",
     default_auto_archive_duration |-> "default_auto_archive_duration",
     bitrate |-> "bitrate", rtc_region |-> "rtc_region", user_limit |-> "user_limit",
     video_quality_mode |-> "video_quality_mode",
     nickname |-> "nick", roles |-> "roles", mute |-> "mute", deaf |-> "deaf",
     timeout_until |-> "communication_disabled_until"]

\* an edit of a class that implements edit()
IsEdit == op.name = "edit" /\ self.cls # "GuildChannel"

EditCalls == {"edit_channel", "edit_guild_member"}

\* C1: an edit of a text, news, category, voice or stage channel or of a
\* guild member that is called with every field left out (whatever the
\* reason) issues no REST call, returns normally and leaves every slot of
\* the entity as it was.
C1_EditWithNothingIsNoOp ==
    (IsEdit /\ Given(op) = {}) =>
        /\ pc = "done"
        /\ calls = <<>>
        /\ result = "returned"
        /\ self = before

C1_Witness ==
    /\ IsEdit /\ Given(op) = {} /\ op.reason # None
    /\ self.cls = "StageChannel"
    /\ pc = "done" /\ result = "returned"

\* what local validation accepts (TextChannel: type and
\* default_auto_archive_duration; VoiceChannel: bitrate)
PassesValidation(cls, kw) ==
    /\ cls \in TextClasses =>
        /\ kw.type # EMPTY => kw.type.some \in {ChannelType_TEXT, ChannelType_NEWS}
        /\ kw.default_auto_archive_duration # EMPTY =>
              kw.default_auto_archive_duration.some \in {60, 1440, 4320, 10080}
    /\ cls \in VoiceClasses =>
        (kw.bitrate # EMPTY => (kw.bitrate.some >= 8000 /\ kw.bitrate.some <= 128000))

\* C2: an edit whose arguments pass local validation and are not all left
\* out issues one REST edit call, and the body of that call has the key of
\* a parameter exactly if the caller passed the parameter; with one
\* parameter passed the body has one key.
C2_BodyKeysAreTheGivenFields ==
    (IsEdit /\ Given(op) # {} /\ PassesValidation(self.cls, op.kw)) =>
        /\ Len(calls) = 1
        /\ calls[1].fn \in EditCalls
        /\ DOMAIN calls[1].json = {WireKey[k] : k \in Given(op)}
        /\ Cardinality(Given(op)) = 1 => Cardinality(DOMAIN calls[1].json) = 1

C2_Witness ==
    /\ IsEdit /\ pc = "await_edit"
    /\ self.cls = "NewsChannel"
    /\ Given(op) = {"slowmode_delay"}
    /\ DOMAIN calls[1].json = {"rate_limit_per_user"}

\* what an explicit None of the caller is sent as
ClearingValue ==
    [topic |-> None, rtc_region |-> None, nickname |-> None, timeout_until |-> None,
     parent |-> None, slowmode_delay |-> Some(0), user_limit |-> Some(0),
     roles |-> Some(<<>>)]

NullsAreSent ==
    /\ \A k \in DOMAIN op.kw \cap DOMAIN ClearingValue :
          op.kw[k] = None =>
              /\ Len(calls) = 1
              /\ calls[1].fn \in EditCalls
              /\ WireKey[k] \in DOMAIN calls[1].json
              /\ calls[1].json[WireKey[k]] = ClearingValue[k]
    /\ ("parent" \in DOMAIN op.kw /\ op.kw.parent \notin {EMPTY, None}) =>
          /\ Len(calls) = 1
          /\ calls[1].fn = "edit_channel"
          /\ "parent_id" \in DOMAIN calls[1].json
          /\ calls[1].json["parent_id"] = op.kw.parent.some.id

\* C3 as stated: in every edit an explicit None always puts the key in the
\* body and a REST call is issued, with 0 for slowmode_delay and user_limit,
\* the empty list for roles and null for topic, rtc_region, nickname,
\* timeout_until and parent; a category passed as parent is sent as
\* parent_id = the id of the category.
C3_NullAlwaysSent == IsEdit => NullsAreSent

\* C3, amended: the same, in every edit whose arguments pass local
\* validation (an edit that local validation rejects issues no call).
C3_NullSentWhenValid == (IsEdit /\ PassesValidation(self.cls, op.kw)) => NullsAreSent

C3_Witness ==
    /\ IsEdit /\ pc = "await_edit"
    /\ self.cls = "TextChannel"
    /\ op.kw.slowmode_delay = None /\ op.kw.topic = None /\ op.kw.parent = None
    /\ op.kw.type = Some(ChannelType_NEWS)
    /\ calls[1].json["rate_limit_per_user"] = Some(0)
    /\ calls[1].json["topic"] = None
    /\ calls[1].json["parent_id"] = None

\* C4: VoiceChannel.edit and StageChannel.edit with a bitrate below 8000 or
\* above 128000 raise ValueError, issue no REST call and leave the channel
\* as it was, whatever else is passed; with a bitrate from 8000 to 128000,
\* ends included, no ValueError is raised and edit_channel is called with
\* the bitrate in the body.
C4_BitrateRange ==
    (IsEdit /\ self.cls \in VoiceClasses /\ op.kw.bitrate # EMPTY) =>
        IF op.kw.bitrate.some < 8000 \/ op.kw.bitrate.some > 128000
        THEN /\ pc = "done"
             /\ result = "ValueError"
             /\ calls = <<>>
             /\ self = before
        ELSE /\ result # "ValueError"
             /\ Len(calls) = 1
             /\ calls[1].fn = "edit_channel"
             /\ "bitrate" \in DOMAIN calls[1].json
             /\ calls[1].json["bitrate"] = op.kw.bitrate

C4_Witness ==
    /\ IsEdit /\ self.cls = "VoiceChannel"
    /\ op.kw.bitrate = Some(128000)
    /\ op.kw.user_limit = None
    /\ pc = "done" /\ result = "returned"
    /\ calls[1].json["bitrate"] = Some(128000)

TypeRejected(kw) ==
    kw.type # EMPTY /\ kw.type.some \notin {ChannelType_TEXT, ChannelType_NEWS}

DurationRejected(kw) ==
    /\ kw.default_auto_archive_duration # EMPTY
    /\ kw.default_auto_archive_duration.some \notin {60, 1440, 4320, 10080}

\* C5: TextChannel.edit and NewsChannel.edit raise ValueError, with no REST
\* call and the channel as it was, when the type passed is not TEXT or NEWS
\* and when the default_auto_archive_duration passed is not 60, 1440, 4320
\* or 10080, whatever else is passed; when the type and the duration passed
\* are among those, the edit is not rejected and calls edit_channel once.
C5_TextValidation ==
    (IsEdit /\ self.cls \in TextClasses) =>
        /\ (TypeRejected(op.kw) \/ DurationRejected(op.kw)) =>
              /\ pc = "done"
              /\ result = "ValueError"
              /\ calls = <<>>
              /\ self = before
        /\ ( /\ op.kw.type # EMPTY \/ op.kw.default_auto_archive_duration # EMPTY
             /\ ~TypeRejected(op.kw)
             /\ ~DurationRejected(op.kw) ) =>
              /\ result # "ValueError"
              /\ Len(calls) = 1
              /\ calls[1].fn = "edit_channel"

C5_Witness ==
    /\ IsEdit /\ self.cls = "TextChannel"
    /\ op.kw.type = Some(ChannelType_NEWS)
    /\ op.kw.default_auto_archive_duration = Some(10080)
    /\ pc = "done" /\ result = "returned" /\ Len(calls) = 1

\* the key of a payload that each slot of an entity is read from
SlotKey ==
    [id |-> "id", type |-> "type", name |-> "name", position |-> "position",
     parent_id |-> "parent_id", topic |-> "topic", last_message_id |-> "last_message_id",
     slowmode_delay |-> "rate_limit_per_user",
     default_auto_archive_duration |-> "default_auto_archive_duration",
     nsfw |-> "nsfw", last_pin_timestamp |-> "last_pin_timestamp",
     bitrate |-> "bitrate", rtc_region |-> "rtc_region", user_limit |-> "user_limit",
     video_quality_mode |-> "video_quality_mode",
     nickname |-> "nick", avatar |-> "avatar", deaf |-> "deaf", mute |-> "mute",
     pending |-> "pending", joined_at |-> "joined_at",
     premium_since |-> "premium_since",
     timeout_until |-> "communication_disabled_until"]

\* what a slot holds when the payload lacks its key
SlotDefault ==
    [position |-> Some(1), parent_id |-> None, topic |-> None, last_message_id |-> None,
     slowmode_delay |-> Some(0), default_auto_archive_duration |-> Some(60),
     nsfw |-> Some(FALSE), last_pin_timestamp |-> None,
     bitrate |-> None, rtc_region |-> None, user_limit |-> Some(0),
     video_quality_mode |-> Some(1),
     nickname |-> None, avatar |-> None, deaf |-> Some(FALSE), mute |-> Some(FALSE),
     pending |-> Some(FALSE), premium_since |-> None, timeout_until |-> None]

SnowflakeSlots == {"id", "parent_id", "last_message_id"}
TimestampSlots == {"last_pin_timestamp", "joined_at", "premium_since", "timeout_until"}

\* the value of a slot, from the value of its key in a payload
Decoded(slot, v) ==
    IF v = None THEN None
    ELSE IF slot \in SnowflakeSlots THEN Some(IntOfStr(v.some))
    ELSE IF slot \in TimestampSlots THEN Some(parse_iso_timestamp(v.some))
    ELSE v

FromPayload(slot, data) ==
    IF SlotKey[slot] \in DOMAIN data
    THEN Decoded(slot, data[SlotKey[slot]])
    ELSE SlotDefault[slot]

ChannelSlots(cls) ==
    {"id", "type", "name", "position", "parent_id"}
    \cup (IF cls \in TextClasses
          THEN {"topic", "last_message_id", "slowmode_delay",
                "default_auto_archive_duration", "nsfw", "last_pin_timestamp"}
          ELSE {})
    \cup (IF cls \in VoiceClasses
          THEN {"bitrate", "rtc_region", "user_limit", "video_quality_mode"}
          ELSE {})

EditReturned == pc = "done" /\ result = "returned" /\ Len(calls) = 1

\* C6: when a channel edit has called edit_channel and a non-empty payload
\* came back, every slot of the channel is what the payload gives for it:
\* the value of its key, or the default of the slot when the payload lacks
\* the key (not the value the slot had, not the value of the request body);
\* when nothing or an empty payload came back the channel is as it was.
C6_ChannelTakenFromResponse ==
    (IsEdit /\ self.cls \in ChannelClasses /\ EditReturned) =>
        IF Truthy(resp)
        THEN /\ DOMAIN self = ChannelSlots(self.cls) \cup {"cls"}
             /\ self.cls = before.cls
             /\ \A slot \in ChannelSlots(self.cls) : self[slot] = FromPayload(slot, resp)
        ELSE self = before

C6_Witness ==
    /\ IsEdit /\ self.cls = "TextChannel" /\ EditReturned
    /\ Truthy(resp)
    /\ DOMAIN resp = {"id", "type", "name"}
    /\ before.topic = Some("rules")
    /\ calls[1].json["topic"] = Some("welcome")
    /\ self.topic = None
    /\ self.slowmode_delay = Some(0)

C6_WitnessEmpty ==
    /\ IsEdit /\ self.cls = "VoiceChannel" /\ EditReturned
    /\ resp = EmptyDict
    /\ self = before

\* the ids of the roles passed to the edit in `o`
RequestedRoleIds(o) ==
    IF o.kw.roles = None THEN <<>>
    ELSE [i \in 1..Len(o.kw.roles.some) |-> o.kw.roles.some[i].id]

\* the role ids of a member payload
PayloadRoleIds(data) ==
    IF "roles" \in DOMAIN data
    THEN [i \in 1..Len(data["roles"].some) |-> Some(IntOfStr(data["roles"].some[i].some))]
    ELSE <<>>

MemberSlots ==
    {"nickname", "avatar", "deaf", "mute", "pending", "joined_at", "premium_since",
     "timeout_until"}

\* C7: GuildMember.edit with roles passed sends the ids of the roles passed,
\* in their order, as the whole value of `roles` (the roles the member has
\* are not added), and whenever edit_guild_member returns the member is set
\* from the response: its role_ids are those of the response, not those
\* that were requested.
C7_RolesReplacedAndMemberRehydrated ==
    (IsEdit /\ self.cls = "GuildMember") =>
        /\ op.kw.roles # EMPTY =>
              /\ Len(calls) = 1
              /\ calls[1].fn = "edit_guild_member"
              /\ calls[1].json["roles"] = Some(RequestedRoleIds(op))
        /\ EditReturned =>
              /\ self.role_ids = Some(PayloadRoleIds(resp))
              /\ \A slot \in MemberSlots : self[slot] = FromPayload(slot, resp)

C7_Witness ==
    /\ IsEdit /\ self.cls = "GuildMember" /\ EditReturned
    /\ before.role_ids = Some(<<Some(11)>>)
    /\ calls[1].json["roles"] = Some(<<Some(13), Some(12)>>)
    /\ self.role_ids = Some(<<Some(12), Some(11)>>)

\* whether the member had the role when the operation was called
HadRole(role) ==
    \E i \in 1..Len(before.role_ids.some) : before.role_ids.some[i] = role.id

\* the roles among `roles`, in their order, that are in the set `keep`
RECURSIVE Filtered(_, _)
Filtered(roles, keep) ==
    IF roles = <<>> THEN <<>>
    ELSE (IF Head(roles) \in keep THEN <<Head(roles)>> ELSE <<>>)
         \o Filtered(Tail(roles), keep)

\* the calls issued so far are, in order, calls of `fn` for the first roles
\* of `expected`
CallsArePrefixOf(expected, fn) ==
    /\ Len(calls) <= Len(expected)
    /\ \A i \in 1..Len(calls) :
          /\ calls[i].fn = fn
          /\ calls[i].role_id = expected[i].id
          /\ calls[i].guild_id = Guild.id
          /\ calls[i].user_id = self.user.id

\* per-role calls go out one at a time, each after the one before it has
\* returned; at a normal return the calls are those for `expected`, all of
\* them have returned, and `expected` is what is returned
OneByOne(expected, fn) ==
    /\ CallsArePrefixOf(expected, fn)
    /\ completed <= Len(calls)
    /\ Len(calls) <= completed + 1
    /\ pc = "await_role" => Len(calls) = completed + 1
    /\ (pc = "done" /\ result = "returned") =>
          /\ Len(calls) = Len(expected)
          /\ completed = Len(calls)
          /\ ret = Some(expected)

AllRoles == {Role(id) : id \in RoleIds}

\* C8: add_roles with overwrite false, or with no roles: the
\* add_guild_member_role calls are issued one after the other has returned,
\* in the order of the roles passed, for the roles whose id is not in
\* role_ids when ignore_extra is true and for all the roles when it is
\* false; the list returned is the list of those roles.
C8_AddRolesPerRole ==
    (op.name = "add_roles" /\ (~op.overwrite \/ op.roles = <<>>)) =>
        OneByOne(Filtered(op.roles,
                          IF op.ignore_extra
                          THEN {r \in AllRoles : ~HadRole(r)} ELSE AllRoles),
                 "add_guild_member_role")

C8_Witness ==
    /\ op.name = "add_roles" /\ ~op.overwrite /\ op.ignore_extra
    /\ before.role_ids = Some(<<Some(12), Some(11)>>)
    /\ op.roles = <<Role(11), Role(13)>>
    /\ pc = "done" /\ result = "returned"
    /\ Len(calls) = 1 /\ calls[1].role_id = Some(13)
    /\ ret = Some(<<Role(13)>>)
    /\ self.roles # ret

\* C9: remove_roles with at least one role: the remove_guild_member_role
\* calls are issued, in the order of the roles passed, for the roles whose
\* id is in role_ids when ignore_extra is true and for all the roles when it
\* is false; the list returned is the list of those roles; edit_guild_member
\* is not called.
C9_RemoveRolesPerRole ==
    (op.name = "remove_roles" /\ op.roles # <<>>) =>
        OneByOne(Filtered(op.roles,
                          IF op.ignore_extra
                          THEN {r \in AllRoles : HadRole(r)} ELSE AllRoles),
                 "remove_guild_member_role")

C9_Witness ==
    /\ op.name = "remove_roles" /\ op.ignore_extra
    /\ before.role_ids = Some(<<Some(12), Some(11)>>)
    /\ op.roles = <<Role(13), Role(11)>>
    /\ pc = "done" /\ result = "returned"
    /\ Len(calls) = 1 /\ calls[1].role_id = Some(11)
    /\ calls[1].fn = "remove_guild_member_role"
    /\ ret = Some(<<Role(11)>>)

IsBulk ==
    \/ op.name = "remove_roles" /\ op.roles = <<>>
    \/ op.name = "add_roles" /\ op.overwrite /\ op.roles # <<>>

PerRole == op.name \in {"add_roles", "remove_roles"} /\ ~IsBulk

\* the calls that the for loop of `o` issues from index i on when every
\* call returns
RECURSIVE LoopCalls(_, _)
LoopCalls(o, i) ==
    LET j == NextRole(o, i)
    IN  IF j > Len(o.roles) THEN <<>>
        ELSE <<role_call(o, o.roles[j])>> \o LoopCalls(o, j + 1)

\* the calls that the same add_roles/remove_roles call issues when it is
\* made on the member as it is now
SameCallAgain == LoopCalls([op EXCEPT !.existing_roles = self.role_ids], 1)

\* C11: on the path of one call per role, add_roles and remove_roles leave
\* every slot of the member (role_ids and roles among them) as it was,
\* however many calls were issued and have returned; so when the call has
\* returned, the same call made again issues the same calls again (with
\* ignore_extra true: the roles just added are still not in role_ids).
C11_PerRolePathLeavesMember ==
    PerRole =>
        /\ self = before
        /\ (pc = "done" /\ result = "returned") => SameCallAgain = calls

C11_Witness ==
    /\ op.name = "add_roles" /\ ~op.overwrite /\ op.ignore_extra
    /\ pc = "done" /\ result = "returned"
    /\ op.roles = <<Role(13), Role(12)>>
    /\ Len(calls) = 2 /\ completed = 2
    /\ self.role_ids = Some(<<Some(11)>>)
    /\ SameCallAgain = calls

\* C12: when a REST call of an operation (edit_channel, delete_channel,
\* edit_guild_member, kick_guild_member, a call of add_roles or remove_roles
\* for one role) raises or is cancelled, the exception is the outcome of the
\* operation, the operation is over with the failed call as its last call
\* (the calls before it had returned; it is not issued again, and the calls
\* for the roles that remain are not issued), and every slot of the entity
\* is as it was when the operation was called.
C12_FailurePropagates ==
    result = "HTTPException" =>
        /\ pc = "done"
        /\ calls # <<>>
        /\ Len(calls) = completed + 1
        /\ IF PerRole
           THEN calls = SubSeq(LoopCalls(op, 1), 1, Len(calls))
           ELSE Len(calls) = 1 /\ ret = None
        /\ resp = None
        /\ self = before

C12_Witness ==
    /\ result = "HTTPException" /\ pc = "done"
    /\ op.name = "remove_roles" /\ ~op.ignore_extra
    /\ op.roles = <<Role(11), Role(12), Role(13)>> \/ op.roles = <<Role(11), Role(12)>>
    /\ Len(calls) = 1 /\ completed = 0
    /\ ret = Some(<<>>)

\* what the role cache that the member was last hydrated with gives for an id
LookedUp(role_id) == IF role_id.some \in hydrated THEN Role(role_id.some) ELSE None

\* C13: in every state of a guild member (as constructed, and during and
\* after every edit, add_roles, remove_roles and kick), roles is as long as
\* role_ids, and roles[i] is what the role cache of the guild gave for
\* role_ids[i] when the member was last hydrated: the role, or None where
\* the cache held no role of that id, whatever the cache holds now.
C13_RolesFollowRoleIds ==
    self.cls = "GuildMember" =>
        /\ Len(self.roles.some) = Len(self.role_ids.some)
        /\ \A i \in 1..Len(self.role_ids.some) :
              self.roles.some[i] = LookedUp(self.role_ids.some[i])

C13_Witness ==
    /\ self.cls = "GuildMember"
    /\ op.name = "add_roles" /\ pc = "done" /\ result = "returned" /\ Len(calls) = 1
    /\ self.role_ids = Some(<<Some(12), Some(11)>>)
    /\ self.roles = Some(<<None, Role(11)>>)
    /\ 12 \in roleCache

\* C17: is_timed_out() is TRUE exactly when timeout_until is not None and
\* is later than the clock at the call: FALSE when timeout_until is None,
\* FALSE when timeout_until is the instant of the call or before it; the
\* call changes nothing of the member.
C17_TimedOutAgainstTheClock ==
    op.name = "is_timed_out" =>
        /\ result = "returned"
        /\ ret = Some(self.timeout_until # None /\ self.timeout_until.some > op.now)
        /\ self.timeout_until = None => ret = Some(FALSE)
        /\ (self.timeout_until # None /\ self.timeout_until.some <= op.now) =>
              ret = Some(FALSE)
        /\ self = before
        /\ calls = <<>>

\* two calls in a row on a member with timeout_until set and not hydrated
\* in between: TRUE, and FALSE once the clock is past timeout_until
C17_Witness ==
    /\ op.name = "is_timed_out"
    /\ self.timeout_until = Some(300)
    /\ op.prev = Some(TRUE)
    /\ ret = Some(FALSE)
    /\ op.now = 300

\* C14 as stated: an edit with every field left out of a base GuildChannel
\* (what the factory gives for a type code it does not know) issues no REST
\* call and returns normally.
C14_BaseEditWithNothingReturns ==
    (op.name = "edit" /\ self.cls = "GuildChannel" /\ Given(op) = {}) =>
        /\ calls = <<>>
        /\ result = "returned"

\* what the code does: no call, and NotImplementedError
C14_Witness ==
    /\ op.name = "edit" /\ self.cls = "GuildChannel" /\ Given(op) = {}
    /\ self.type \in {Some(t) : t \in UnknownTypes}
    /\ pc = "done"
    /\ calls = <<>>
    /\ result = "NotImplementedError"
    /\ self = before

\* the class of each type code that has one
VariantOf ==
    (ChannelType_TEXT :> "TextChannel") @@ (ChannelType_NEWS :> "NewsChannel")
    @@ (ChannelType_CATEGORY :> "CategoryChannel") @@ (ChannelType_VOICE :> "VoiceChannel")
    @@ (ChannelType_STAGE :> "StageChannel")

\* C15: the factory returns, for every type code and in every state it is
\* called in, TextChannel for TEXT, NewsChannel for NEWS, CategoryChannel for
\* CATEGORY, VoiceChannel for VOICE, StageChannel for STAGE and the base
\* GuildChannel for any other code; it does not raise, and what it returns
\* depends on the code alone.
C15_FactoryIsTotal ==
    op.name = "_channel_factory" =>
        /\ result = "returned"
        /\ ret = Some(IF op.type \in DOMAIN VariantOf THEN VariantOf[op.type]
                      ELSE "GuildChannel")
        /\ self = before

C15_Witness ==
    /\ op.name = "_channel_factory"
    /\ op.type \in UnknownTypes
    /\ ret = Some("GuildChannel")
    /\ self.cls = "StageChannel" /\ self.type = Some(ChannelType_STAGE)

\* the channels among `cached`, in their order, whose parent is `id`
RECURSIVE ChildrenOf(_, _)
ChildrenOf(cached, id) ==
    IF cached = <<>> THEN <<>>
    ELSE (IF Head(cached).parent_id # None /\ Head(cached).parent_id.some = id.some
          THEN <<Head(cached)>> ELSE <<>>)
         \o ChildrenOf(Tail(cached), id)

\* C16: in every state, and without the category being constructed or
\* hydrated again, `channels` of a category is the list of the channels
\* that guild.cache holds in that state and whose parent_id is the id of
\* the category, whatever channels were added to the cache, removed from it
\* or re-hydrated before (the entity by its own edit among them); a read
\* gives the list for the cache as it is at the read.
C16_ChannelsIsLiveView ==
    /\ \A category \in ReadCategories :
          LET view == CategoryChannel_channels(category, guild_cache_channels)
          IN  /\ view = ChildrenOf(guild_cache_channels, category.id)
              /\ \A i \in 1..Len(guild_cache_channels) :
                    (guild_cache_channels[i].parent_id = category.id)
                    <=> (\E j \in 1..Len(view) : view[j] = guild_cache_channels[i])
    /\ op.name = "channels" =>
          /\ ret = Some(ChildrenOf(op.channels, op.category.id))
          /\ pc = "done" /\ result = "returned" /\ calls = <<>>
          /\ self = before
          /\ op.category \in ReadCategories

C16_Witness ==
    /\ op.name = "channels"
    /\ op.category = Category40
    /\ self.cls = "VoiceChannel"
    /\ Len(channels) = 2
    /\ ret = Some(<<self, channels[2]>>)
    /\ op.channels = guild_cache_channels

\* both edits were in flight together and both responses have come back
BothDelivered ==
    /\ pc = "done" /\ result = "returned"
    /\ other.pc = "done" /\ other.result = "returned"

\* the response that came back last, and the one that came back before it
DeliveredLast == IF other.last THEN other.resp ELSE resp
DeliveredFirst == IF other.last THEN resp ELSE other.resp

\* the entity as a payload alone makes it
HydrationOf(data) ==
    IF self.cls = "GuildMember"
    THEN GuildMember_init(roleCache, data)
    ELSE GuildChannel_init(self.cls, data)

\* C18 as stated: when two edits of the entity were in flight together and
\* both responses have come back, in either order, the entity is the
\* hydration of the response that came back last, and nothing of the
\* response that came back before it is left (when the last is empty the
\* entity is as it was before the edits).
C18_LastDeliveredWins ==
    BothDelivered =>
        self = IF Truthy(DeliveredLast) THEN HydrationOf(DeliveredLast) ELSE before

\* C18, amended: the entity is the hydration of the last response that
\* re-hydrated it: of the response that came back last, or, when that is an
\* empty response of edit_channel, of the response that came back before
\* it; when both are empty it is as it was.  No re-hydration is refused.
C18_LastRehydrationWins ==
    BothDelivered =>
        self = IF Truthy(DeliveredLast) THEN HydrationOf(DeliveredLast)
               ELSE IF Truthy(DeliveredFirst) THEN HydrationOf(DeliveredFirst)
               ELSE before

\* the response of the edit issued first comes back last and wins
C18_Witness ==
    /\ BothDelivered
    /\ self.cls = "TextChannel"
    /\ ~other.last
    /\ other.resp = TextFull(ChannelType_TEXT)
    /\ resp = ChannelMin(ChannelType_TEXT, "text")
    /\ self = HydrationOf(resp)
    /\ self.topic = None

\* a channel has been re-hydrated by the response of its edit
ChannelRehydrated ==
    IsEdit /\ self.cls \in ChannelClasses /\ EditReturned /\ Truthy(resp)

\* C19: no step changes the class of the entity; a response that
\* re-hydrates a channel overwrites its type with the type of the payload,
\* whatever class the channel has: after TextChannel.edit(type=NEWS) with a
\* response of type NEWS the channel has type NEWS and is a TextChannel,
\* not the NewsChannel that the factory gives for NEWS, and its edit is
\* still the edit (with the validation) of its class.
C19_VariantIsFixed ==
    /\ [][self'.cls = self.cls]_vars
    /\ [](ChannelRehydrated =>
            /\ self.type = resp["type"]
            /\ self.cls = before.cls)
    /\ []((op.name = "edit" /\ self.cls \in TextClasses) =>
            (result = "ValueError" <=> ~PassesValidation("TextChannel", op.kw)))

C19_Witness ==
    /\ ChannelRehydrated
    /\ self.cls = "TextChannel"
    /\ op.kw.type = Some(ChannelType_NEWS)
    /\ before.type = Some(ChannelType_TEXT)
    /\ resp["type"] = Some(ChannelType_NEWS)
    /\ self.type = Some(ChannelType_NEWS)
    /\ _channel_factory(self.type.some) = "NewsChannel"

====
